---- MODULE Spec2Model ----
(***************************************************************************)
(* State-machine model of the ArtworkList component                        *)
(* (src/src/components/ArtworkList.tsx): its React state, the three        *)
(* useEffect callbacks, the two asynchronous fetches with the values their *)
(* closures captured, the event handlers, and the browser's local storage. *)
(*                                                                         *)
(* React semantics assumed (React 18, no StrictMode double mount):         *)
(*  - all setState calls made by one handler, one effect pass or one       *)
(*    promise continuation are batched into one commit;                    *)
(*  - after a commit the effects whose dependencies changed (by reference) *)
(*    run in declaration order, each reading the state of that commit;     *)
(*  - the effects of a commit run before the next event is handled.        *)
(* A record is modelled by its identifier alone, the only field the        *)
(* selection logic reads.                                                  *)
(***************************************************************************)
EXTENDS Integers, Sequences, FiniteSets, Bags, TLC

\* ------------------------------------------------------------------ bounds
\* lazyParams.rows (12 in the source, line 40), scaled down.
Rows == 2
\* Number of user events (handler invocations) in one behaviour.
MaxOps == 1

\* pagination.total reported by the server: three full pages and a partial one.
Total == 3 * Rows + 1

\* ------------------------------------------------------------ small helpers
Min(a, b) == IF a < b THEN a ELSE b
Max(a, b) == IF a > b THEN a ELSE b

Range(s) == {s[i] : i \in 1..Len(s)}

\* Array.prototype.includes
Includes(s, x) == x \in Range(s)

\* Array.prototype.slice(0, n)
Slice0(s, n) == SubSeq(s, 1, Min(n, Len(s)))

\* Array.prototype.filter(id => !others.includes(id))
RECURSIVE FilterNotIn(_, _)
FilterNotIn(s, others) ==
  IF s = <<>> THEN <<>>
  ELSE IF Includes(others, Head(s)) THEN FilterNotIn(Tail(s), others)
       ELSE <<Head(s)>> \o FilterNotIn(Tail(s), others)

\* Array.from(new Set(s)): insertion order, first occurrence kept
RECURSIVE ArrayFromSet(_)
ArrayFromSet(s) ==
  IF s = <<>> THEN <<>>
  ELSE LET init == ArrayFromSet(SubSeq(s, 1, Len(s) - 1))
           last == s[Len(s)]
       IN IF Includes(init, last) THEN init ELSE Append(init, last)

NoDuplicates(s) == \A i, j \in 1..Len(s) : i # j => s[i] # s[j]

\* ------------------------------------------------- text: sequences of chars
Digits == <<"0", "1", "2", "3", "4", "5", "6", "7", "8", "9">>
IsDigit(c) == c \in Range(Digits)
DigitValue(c) == (CHOOSE d \in 1..10 : Digits[d] = c) - 1

\* Number.prototype.toString for a non-negative integer
RECURSIVE NumberToString(_)
NumberToString(n) ==
  IF n < 10 THEN <<Digits[n + 1]>>
  ELSE NumberToString(n \div 10) \o <<Digits[(n % 10) + 1]>>

\* JSON.stringify of a number[]
RECURSIVE JoinNumbers(_)
JoinNumbers(ids) ==
  IF ids = <<>> THEN <<>>
  ELSE IF Len(ids) = 1 THEN NumberToString(ids[1])
  ELSE NumberToString(Head(ids)) \o <<",">> \o JoinNumbers(Tail(ids))

JSONstringify(ids) == <<"[">> \o JoinNumbers(ids) \o <<"]">>

\* JSON.parse of the text of a number[]: cur is the number being read
\* (-1: none), acc the elements read so far.
RECURSIVE ParseItems(_, _, _)
ParseItems(text, cur, acc) ==
  IF text = <<>> THEN acc
  ELSE LET c == Head(text) IN
    IF IsDigit(c)
      THEN ParseItems(Tail(text), (IF cur < 0 THEN 0 ELSE cur * 10) + DigitValue(c), acc)
    ELSE IF c \in {",", "]"}
      THEN ParseItems(Tail(text), -1, IF cur < 0 THEN acc ELSE Append(acc, cur))
    ELSE ParseItems(Tail(text), cur, acc)

JSONparse(text) == ParseItems(text, -1, <<>>)

\* parseInt(text, 10): optional sign, then the leading digits; NaN without any.
RECURSIVE LeadingDigits(_, _)
LeadingDigits(text, acc) ==
  IF text = <<>> \/ ~IsDigit(Head(text)) THEN acc
  ELSE LeadingDigits(Tail(text), acc * 10 + DigitValue(Head(text)))

parseInt(text) ==
  LET neg  == text # <<>> /\ Head(text) = "-"
      body == IF text # <<>> /\ Head(text) \in {"-", "+"} THEN Tail(text) ELSE text
  IN IF body = <<>> \/ ~IsDigit(Head(body))
       THEN [nan |-> TRUE, value |-> 0]
       ELSE [nan |-> FALSE,
             value |-> IF neg THEN 0 - LeadingDigits(body, 0) ELSE LeadingDigits(body, 0)]

\* ------------------------------------------------------- the remote catalog
SortFields == {"title"}

\* Server order of the catalog for a sort_by parameter: unsorted it is
\* 1..Total, ascending by the field it is a rotation of that, ":desc" reverses.
Catalogue(sortField, sortOrder) ==
  LET asc == [i \in 1..Total |-> (i % Total) + 1]
  IN IF sortField = "none" THEN [i \in 1..Total |-> i]
     ELSE IF sortOrder = -1 THEN [i \in 1..Total |-> asc[Total + 1 - i]]
     ELSE asc

\* data of GET /artworks?page=..&limit=Rows[&sort_by=..]; empty past the end
ServerPage(page, sortField, sortOrder) ==
  SubSeq(Catalogue(sortField, sortOrder), (page - 1) * Rows + 1, Min(page * Rows, Total))

PageCount(total) == (total + Rows - 1) \div Rows

\* -------------------------------------------------------------------- state
VARIABLES
  artworks,            \* useState<Artwork[]>([]): ids of the displayed page
  loading,             \* useState(true)
  totalRecords,        \* useState(0)
  lazyParams,          \* useState({first, rows, page, sortField, sortOrder})
  selectedArtworkIds,  \* useState<number[]>([])
  selectAll,           \* useState(false)
  rowSelection,        \* useState(''): text of the count input
  pendingSelection,    \* useState<number>(0)
  localStorage,        \* the item stored under 'selectedArtworkIds'
  pageFetches,         \* bag of fetchArtworks requests awaiting their response
  nextFetches,         \* bag of fetchNextPage requests awaiting their response
  effects,             \* effects of the last commit that have not run yet
  ops,                 \* history: number of user events handled so far
  lastOp,              \* history: the last step taken and its input
  mountItem,           \* history: the stored item found at mount
  walk                 \* history: the select-first-N walk being observed

vars == <<artworks, loading, totalRecords, lazyParams, selectedArtworkIds, selectAll,
          rowSelection, pendingSelection, localStorage, pageFetches, nextFetches,
          effects, ops, lastOp, mountItem, walk>>

\* The three useEffect callbacks, named by their dependency lists.
EffLazyParams == "lazyParams"
EffPersist    == "selectedArtworkIds"
EffPending    == "pendingSelection,selectedArtworkIds"

\* localStorage.getItem: null when the key is absent
NoItem == [present |-> FALSE, text |-> <<>>]
Item(text) == [present |-> TRUE, text |-> text]

\* Selections a previous session may have left in local storage.
StoredBefore == {<<>>, <<Rows + 1, 1>>}

\* Texts the user types into the count input.
TypedCounts == {0, 1, Rows, Rows + 1, 2 * Rows, 2 * Rows + 1, 3 * Rows}
TypedTexts ==
  {NumberToString(n) : n \in TypedCounts} \cup {<<>>, <<"-", "1">>, <<"2", ".", "5">>}

NoWalk == [active |-> FALSE, expect |-> <<>>]

Init ==
  /\ artworks = <<>>
  /\ loading = TRUE
  /\ totalRecords = 0
  /\ lazyParams = [first |-> 0, rows |-> Rows, page |-> 1, sortField |-> "none", sortOrder |-> 0]
  /\ selectedArtworkIds = <<>>
  /\ selectAll = FALSE
  /\ rowSelection = <<>>
  /\ pendingSelection = 0
  /\ localStorage \in {NoItem} \cup {Item(JSONstringify(s)) : s \in StoredBefore}
  /\ pageFetches = EmptyBag
  /\ nextFetches = EmptyBag
  /\ effects = {EffLazyParams, EffPersist, EffPending}
  /\ ops = 0
  /\ lastOp = [op |-> "mount", arg |-> 0]
  /\ mountItem = localStorage
  /\ walk = NoWalk

\* ------------------------------------------------------------------ effects
\* if (storedSelection): null and '' are falsy
StoredSelectionTruthy(item) == item.present /\ item.text # <<>>

\* Mutant of ReloadedSelection: the stored array is never loaded.
ReloadedSelectionSkipped(item, selected) == selected

\* lines 54-57: the stored array replaces the selection when there is one
ReloadedSelection(item, selected) ==
  IF StoredSelectionTruthy(item) THEN JSONparse(item.text) ELSE selected

\* Mutant of PersistedItem: an empty selection is not written.
PersistedItemUnlessEmpty(selected) ==
  IF selected = <<>> THEN localStorage ELSE Item(JSONstringify(selected))

\* localStorage.setItem('selectedArtworkIds', JSON.stringify(selectedArtworkIds))
PersistedItem(selected) == Item(JSONstringify(selected))

\* the request fetchArtworks issues, from the lazyParams of its render
PageRequest(params) ==
  [page |-> params.page, sortField |-> params.sortField, sortOrder |-> params.sortOrder]

\* the request fetchNextPage issues, with what its closure captured
NextRequest(params, pending, total) ==
  [page |-> params.page, sortField |-> params.sortField, sortOrder |-> params.sortOrder,
   pendingSelection |-> pending, totalRecords |-> total]

\* One pass of the pending effects, in declaration order, all reading the
\* state of the commit that scheduled them; their setState calls are batched
\* into the next commit.
RunEffects ==
  /\ effects # {}
  /\ LET runLazy    == EffLazyParams \in effects
         runPersist == EffPersist \in effects
         runPending == EffPending \in effects
         reload     == runLazy /\ StoredSelectionTruthy(localStorage)
     IN /\ pageFetches' = IF runLazy
                            THEN pageFetches (+) SetToBag({PageRequest(lazyParams)})
                            ELSE pageFetches
        /\ loading' = IF runLazy THEN TRUE ELSE loading
        /\ selectedArtworkIds' = IF runLazy
                                    THEN ReloadedSelection(localStorage, selectedArtworkIds)
                                    ELSE selectedArtworkIds
        /\ localStorage' = IF runPersist THEN PersistedItem(selectedArtworkIds)
                                         ELSE localStorage
        /\ nextFetches' = IF runPending /\ pendingSelection > 0
                            THEN nextFetches (+) SetToBag({NextRequest(lazyParams,
                                                   pendingSelection, totalRecords)})
                            ELSE nextFetches
        /\ effects' = IF reload THEN {EffPersist, EffPending} ELSE {}
        /\ lastOp' = [op |-> "effects", arg |-> IF runLazy THEN 1 ELSE 0]
  /\ UNCHANGED <<artworks, totalRecords, lazyParams, selectAll, rowSelection,
                 pendingSelection, ops, mountItem, walk>>

\* ------------------------------------------------------- fetch responses
\* Mutant of FetchArtworksOk: the response of a request that is no longer
\* the current one is dropped.
FetchArtworksOkIfCurrent ==
  /\ effects = {}
  /\ \E req \in BagToSet(pageFetches) :
       LET current == req = PageRequest(lazyParams) IN
       /\ pageFetches' = pageFetches (-) SetToBag({req})
       /\ artworks' = IF current THEN ServerPage(req.page, req.sortField, req.sortOrder)
                                 ELSE artworks
       /\ totalRecords' = IF current THEN Total ELSE totalRecords
       /\ loading' = FALSE
       /\ lastOp' = [op |-> "fetchArtworksOk", arg |-> req]
  /\ UNCHANGED <<lazyParams, selectedArtworkIds, selectAll, rowSelection, pendingSelection,
                 localStorage, nextFetches, effects, ops, mountItem, walk>>

\* fetchArtworks, lines 83-85 then finally: the page replaces the displayed one
FetchArtworksOk ==
  /\ effects = {}
  /\ \E req \in BagToSet(pageFetches) :
       /\ pageFetches' = pageFetches (-) SetToBag({req})
       /\ artworks' = ServerPage(req.page, req.sortField, req.sortOrder)
       /\ totalRecords' = Total
       /\ loading' = FALSE
       /\ lastOp' = [op |-> "fetchArtworksOk", arg |-> req]
  /\ UNCHANGED <<lazyParams, selectedArtworkIds, selectAll, rowSelection, pendingSelection,
                 localStorage, nextFetches, effects, ops, mountItem, walk>>

\* Mutant of FetchArtworksFail: the catch block empties the table.
FetchArtworksFailClearsTable ==
  /\ effects = {}
  /\ \E req \in BagToSet(pageFetches) :
       /\ pageFetches' = pageFetches (-) SetToBag({req})
       /\ lastOp' = [op |-> "fetchArtworksFail", arg |-> req.page]
  /\ artworks' = <<>>
  /\ totalRecords' = 0
  /\ loading' = FALSE
  /\ walk' = NoWalk
  /\ UNCHANGED <<lazyParams, selectedArtworkIds, selectAll, rowSelection, pendingSelection,
                 localStorage, nextFetches, effects, ops, mountItem>>

\* Mutant of FetchArtworksFail: the loading flag is cleared on success only.
FetchArtworksFailKeepsLoading ==
  /\ effects = {}
  /\ \E req \in BagToSet(pageFetches) :
       /\ pageFetches' = pageFetches (-) SetToBag({req})
       /\ lastOp' = [op |-> "fetchArtworksFail", arg |-> req.page]
  /\ walk' = NoWalk
  /\ UNCHANGED <<artworks, loading, totalRecords, lazyParams, selectedArtworkIds, selectAll,
                 rowSelection, pendingSelection, localStorage, nextFetches, effects, ops,
                 mountItem>>

\* fetchArtworks, catch then finally: network error, non-2xx or parse failure
FetchArtworksFail ==
  /\ effects = {}
  /\ \E req \in BagToSet(pageFetches) :
       /\ pageFetches' = pageFetches (-) SetToBag({req})
       /\ lastOp' = [op |-> "fetchArtworksFail", arg |-> req.page]
  /\ loading' = FALSE
  /\ walk' = NoWalk
  /\ UNCHANGED <<artworks, totalRecords, lazyParams, selectedArtworkIds, selectAll,
                 rowSelection, pendingSelection, localStorage, nextFetches, effects, ops,
                 mountItem>>

\* const remainingToSelect = Math.min(pendingSelection, newArtworks.length)
RemainingToSelect(pending, newArtworks) == Min(pending, Len(newArtworks))

\* remainingToSelect < newArtworks.length || nextPage * lazyParams.rows >= totalRecords
WalkEnds(remaining, newArtworks, nextPage, total) ==
  remaining < Len(newArtworks) \/ nextPage * Rows >= total

\* setSelectedArtworkIds(prev => [...prev, ...newSelectedIds])
AppendSelected(prev, newSelectedIds) == prev \o newSelectedIds

\* fetchNextPage, lines 107-121: pendingSelection, totalRecords and
\* lazyParams.page are the values captured when the request was issued,
\* the functional updates read the current state.
FetchNextPageOk ==
  /\ effects = {}
  /\ \E req \in BagToSet(nextFetches) :
       LET nextPage     == req.page + 1
           newArtworks  == ServerPage(nextPage, req.sortField, req.sortOrder)
           remaining    == RemainingToSelect(req.pendingSelection, newArtworks)
           newSelected  == Slice0(newArtworks, remaining)
           ends         == WalkEnds(remaining, newArtworks, nextPage, req.totalRecords)
       IN /\ nextFetches' = nextFetches (-) SetToBag({req})
          /\ selectedArtworkIds' = AppendSelected(selectedArtworkIds, newSelected)
          /\ pendingSelection' = IF ends THEN 0 ELSE pendingSelection - remaining
          /\ lazyParams' = IF ends THEN lazyParams ELSE [lazyParams EXCEPT !.page = nextPage]
          /\ effects' = {EffPersist, EffPending} \cup (IF ends THEN {} ELSE {EffLazyParams})
          /\ lastOp' = [op |-> "fetchNextPageOk", arg |-> nextPage]
  /\ UNCHANGED <<artworks, loading, totalRecords, selectAll, rowSelection, localStorage,
                 pageFetches, ops, mountItem, walk>>

\* Mutant of FetchNextPageFail: the catch block leaves the pending count.
FetchNextPageFailKeepsPending ==
  /\ effects = {}
  /\ \E req \in BagToSet(nextFetches) :
       /\ nextFetches' = nextFetches (-) SetToBag({req})
       /\ lastOp' = [op |-> "fetchNextPageFail", arg |-> req.page + 1]
  /\ walk' = NoWalk
  /\ UNCHANGED <<artworks, loading, totalRecords, lazyParams, selectedArtworkIds, selectAll,
                 rowSelection, pendingSelection, localStorage, pageFetches, effects, ops,
                 mountItem>>

\* fetchNextPage, catch: setPendingSelection(0)
FetchNextPageFail ==
  /\ effects = {}
  /\ \E req \in BagToSet(nextFetches) :
       /\ nextFetches' = nextFetches (-) SetToBag({req})
       /\ lastOp' = [op |-> "fetchNextPageFail", arg |-> req.page + 1]
  /\ pendingSelection' = 0
  /\ effects' = IF pendingSelection # 0 THEN {EffPending} ELSE {}
  /\ walk' = NoWalk
  /\ UNCHANGED <<artworks, loading, totalRecords, lazyParams, selectedArtworkIds, selectAll,
                 rowSelection, localStorage, pageFetches, ops, mountItem>>

\* ------------------------------------------------------------ user events
\* A handler runs when the effects of the last commit have run.
UserMay == effects = {} /\ ops < MaxOps

\* onPage: a paginator link of the pages the total gives
OnPage ==
  /\ UserMay
  /\ \E p \in 0..(PageCount(totalRecords) - 1) :
       /\ lazyParams' = [lazyParams EXCEPT !.first = p * Rows, !.rows = Rows, !.page = p + 1]
       /\ lastOp' = [op |-> "onPage", arg |-> p + 1]
  /\ effects' = {EffLazyParams}
  /\ ops' = ops + 1
  /\ walk' = NoWalk
  /\ UNCHANGED <<artworks, loading, totalRecords, selectedArtworkIds, selectAll, rowSelection,
                 pendingSelection, localStorage, pageFetches, nextFetches, mountItem>>

\* onSort: a click on a sortable column header
OnSort ==
  /\ UserMay
  /\ \E f \in SortFields, o \in {1, -1} :
       /\ lazyParams' = [lazyParams EXCEPT !.sortField = f, !.sortOrder = o]
       /\ lastOp' = [op |-> "onSort", arg |-> o]
  /\ effects' = {EffLazyParams}
  /\ ops' = ops + 1
  /\ walk' = NoWalk
  /\ UNCHANGED <<artworks, loading, totalRecords, selectedArtworkIds, selectAll, rowSelection,
                 pendingSelection, localStorage, pageFetches, nextFetches, mountItem>>

\* InputText onChange; it schedules no effect
SetRowSelection ==
  /\ UserMay
  /\ \E text \in TypedTexts :
       /\ text # rowSelection
       /\ rowSelection' = text
  /\ lastOp' = [op |-> "setRowSelection", arg |-> 0]
  /\ UNCHANGED <<artworks, loading, totalRecords, lazyParams, selectedArtworkIds, selectAll,
                 pendingSelection, localStorage, pageFetches, nextFetches, effects, ops,
                 mountItem, walk>>

\* Mutant of SubmitSelection: the previous selection is not filtered.
SubmitSelectionUnfiltered(selected, currentPageIds, numRows) ==
  selected \o Slice0(currentPageIds, Min(numRows, Len(currentPageIds)))

\* handleSubmit, lines 157-159
SubmitSelection(selected, currentPageIds, numRows) ==
  FilterNotIn(selected, currentPageIds)
    \o Slice0(currentPageIds, Min(numRows, Len(currentPageIds)))

\* Mutant of SubmitPending: the shortfall is taken against the page size.
SubmitPendingOfPageSize(numRows, currentPageIds) == Max(0, numRows - Rows)

\* handleSubmit, line 162
SubmitPending(numRows, currentPageIds) == Max(0, numRows - Len(currentPageIds))

\* What a walk of n from the displayed page is to select: the page, then the
\* leading identifiers of the pages after it.
FirstNFrom(currentPageIds, params, n) ==
  Slice0(currentPageIds
           \o SubSeq(Catalogue(params.sortField, params.sortOrder), params.page * Rows + 1, Total),
         n)

\* The walk a submit starts is observed when it starts from an empty
\* selection on the loaded current page, with nothing else in flight, and the
\* records from this page on can supply n.
WalkStarted(n) ==
  IF /\ selectedArtworkIds = <<>>
     /\ pageFetches = EmptyBag /\ nextFetches = EmptyBag
     /\ artworks = ServerPage(lazyParams.page, lazyParams.sortField, lazyParams.sortOrder)
     /\ totalRecords = Total
     /\ n > Len(artworks)
     /\ Len(FirstNFrom(artworks, lazyParams, n)) = n
  THEN [active |-> TRUE, expect |-> FirstNFrom(artworks, lazyParams, n)]
  ELSE NoWalk

\* Mutant of InvalidCount: only NaN is rejected.
InvalidCountNaNOnly(numRows) == numRows.nan

\* handleSubmit, line 152: isNaN(numRows) || numRows < 0
InvalidCount(numRows) == numRows.nan \/ numRows.value < 0

handleSubmit ==
  /\ UserMay
  /\ LET numRows == parseInt(rowSelection) IN
       IF InvalidCount(numRows)
         THEN /\ lastOp' = [op |-> "handleSubmitInvalid", arg |-> 0]
              /\ walk' = NoWalk
              /\ UNCHANGED <<selectedArtworkIds, pendingSelection, selectAll, effects>>
         ELSE LET newSelection == SubmitSelection(selectedArtworkIds, artworks, numRows.value)
                  pending      == SubmitPending(numRows.value, artworks)
              IN /\ selectedArtworkIds' = newSelection
                 /\ pendingSelection' = pending
                 /\ selectAll' = (Len(newSelection) + Max(0, numRows.value - Len(artworks))
                                    = totalRecords)
                 /\ effects' = {EffPersist, EffPending}
                 /\ lastOp' = [op |-> "handleSubmit", arg |-> numRows.value]
                 /\ walk' = WalkStarted(numRows.value)
  /\ ops' = ops + 1
  /\ UNCHANGED <<artworks, loading, totalRecords, lazyParams, rowSelection, localStorage,
                 pageFetches, nextFetches, mountItem>>

\* checkboxTemplate onChange, lines 179-188; the widget reports the opposite
\* of its checked prop (isSelected)
ToggleSelection(selected, id, checked) ==
  IF checked THEN selected \o <<id>> ELSE FilterNotIn(selected, <<id>>)

checkboxOnChange ==
  /\ \E i \in 1..Len(artworks) :
       LET id           == artworks[i]
           checked      == ~Includes(selectedArtworkIds, id)
           newSelection == ToggleSelection(selectedArtworkIds, id, checked)
       IN /\ selectedArtworkIds' = newSelection
          /\ selectAll' = (Len(newSelection) = totalRecords)
          /\ lastOp' = [op |-> IF checked THEN "check" ELSE "uncheck", arg |-> id]
  /\ effects' = {EffPersist, EffPending}
  /\ ops' = ops + 1
  /\ walk' = NoWalk
  /\ UNCHANGED <<artworks, loading, totalRecords, lazyParams, rowSelection, pendingSelection,
                 localStorage, pageFetches, nextFetches, mountItem>>

checkboxChange == UserMay /\ checkboxOnChange

\* Mutant of SelectPage: the checked branch concatenates without the Set.
SelectPageConcat(prevIds, pageIds, checked) ==
  IF checked THEN prevIds \o pageIds ELSE FilterNotIn(prevIds, pageIds)

\* Mutant of SelectPage: the selection is replaced by the page, or cleared.
SelectPageOnlyPage(prevIds, pageIds, checked) ==
  IF checked THEN pageIds ELSE <<>>

\* selectAllTemplate onChange, lines 199-210
SelectPage(prevIds, pageIds, checked) ==
  IF checked THEN ArrayFromSet(prevIds \o pageIds) ELSE FilterNotIn(prevIds, pageIds)

\* checked={artworks.every(artwork => selectedArtworkIds.includes(artwork.id))}
PageChecked(pageIds, selected) == \A i \in 1..Len(pageIds) : Includes(selected, pageIds[i])

selectAllOnChange ==
  /\ LET checked == ~PageChecked(artworks, selectedArtworkIds)
     IN /\ selectedArtworkIds' = SelectPage(selectedArtworkIds, artworks, checked)
        /\ lastOp' = [op |-> IF checked THEN "checkPage" ELSE "uncheckPage", arg |-> 0]
  /\ effects' = {EffPersist, EffPending}
  /\ ops' = ops + 1
  /\ walk' = NoWalk
  /\ UNCHANGED <<artworks, loading, totalRecords, lazyParams, selectAll, rowSelection,
                 pendingSelection, localStorage, pageFetches, nextFetches, mountItem>>

selectAllChange == UserMay /\ selectAllOnChange

\* ------------------------------------------------------------ specification
Next ==
  \/ RunEffects
  \/ FetchArtworksOk
  \/ FetchArtworksFail
  \/ FetchNextPageOk
  \/ FetchNextPageFail
  \/ OnPage
  \/ OnSort
  \/ SetRowSelection
  \/ handleSubmit
  \/ checkboxChange
  \/ selectAllChange

Spec == Init /\ [][Next]_vars

\* The fetches every issued request of which eventually gets its response
\* (or its error), and the effects React runs after each commit.
FairSpec ==
  /\ Spec
  /\ WF_vars(RunEffects)
  /\ WF_vars(FetchArtworksOk \/ FetchArtworksFail)
  /\ WF_vars(FetchNextPageOk \/ FetchNextPageFail)

\* The page-level checkbox, a row checkbox and the page-level checkbox
\* again, with the effects between, from a loaded page: either with a
\* selection made earlier and no walk, or right after a submit of more
\* records than the page displays, its next-page fetch in flight.
RECURSIVE Ascending(_)
Ascending(S) ==
  IF S = {} THEN <<>>
  ELSE LET m == CHOOSE x \in S : \A y \in S : x <= y
       IN <<m>> \o Ascending(S \ {m})

SelectionsBefore ==
  {Ascending(S) : S \in SUBSET (1..Total)} \cup {<<Rows + 1, 1>>, <<Rows + 1, 1, Rows + 1>>}

\* Pending counts of the start: no walk, or a walk with one record to go.
PendingBefore == {0, 1}

InitSelect ==
  /\ \E p \in 1..PageCount(Total) :
       /\ artworks = ServerPage(p, "none", 0)
       /\ lazyParams = [first |-> (p - 1) * Rows, rows |-> Rows, page |-> p,
                        sortField |-> "none", sortOrder |-> 0]
  /\ loading = FALSE
  /\ totalRecords = Total
  /\ \E before \in SelectionsBefore, pending \in PendingBefore :
       LET numRows == Len(artworks) + pending
           walking == pending > 0
       IN /\ selectedArtworkIds = IF walking THEN SubmitSelection(before, artworks, numRows)
                                             ELSE before
          /\ pendingSelection = IF walking THEN SubmitPending(numRows, artworks) ELSE 0
          /\ selectAll = (walking /\ Len(selectedArtworkIds) + pending = totalRecords)
          /\ rowSelection = IF walking THEN NumberToString(numRows) ELSE <<>>
          /\ nextFetches = IF walking
                             THEN SetToBag({NextRequest(lazyParams, pending, totalRecords)})
                             ELSE EmptyBag
  /\ localStorage = PersistedItem(selectedArtworkIds)
  /\ pageFetches = EmptyBag
  /\ effects = {}
  /\ ops = 0
  /\ lastOp = [op |-> "loaded", arg |-> 0]
  /\ mountItem = localStorage
  /\ walk = NoWalk

\* The response of a next-page fetch in flight may arrive before, between
\* and after the three events. A walk with one record to go ends at its
\* first response (WalkEnds), so the page never advances and no page load
\* is issued: SelectNoPageLoad.
NextSelect ==
  \/ RunEffects
  \/ FetchNextPageOk
  \/ FetchNextPageFail
  \/ (effects = {} /\ ops \in {0, 2} /\ selectAllOnChange)
  \/ (effects = {} /\ ops = 1 /\ checkboxOnChange)

SelectSpec == InitSelect /\ [][NextSelect]_vars

\* In SelectSpec no page load is ever in flight and the displayed page stays.
SelectNoPageLoad ==
  /\ pageFetches = EmptyBag
  /\ artworks = ServerPage(lazyParams.page, lazyParams.sortField, lazyParams.sortOrder)

\* ------------------------------------------------------------------ claims
\* Array.prototype.filter(id => others.includes(id))
RECURSIVE FilterIn(_, _)
FilterIn(s, others) ==
  IF s = <<>> THEN <<>>
  ELSE IF Includes(others, Head(s)) THEN <<Head(s)>> \o FilterIn(Tail(s), others)
       ELSE FilterIn(Tail(s), others)

\* No effect remains to run.
Settled == effects = {}

\* C1: a select-first-N walk started from an empty selection, with no fetch
\* failing and no other user action, has selected exactly the N identifiers
\* from the current page on, in server order, when its pending count
\* returns to 0.
C1_WalkSelectsFirstN ==
  [][(walk.active /\ walk'.active /\ pendingSelection > 0 /\ pendingSelection' = 0)
       => selectedArtworkIds' = walk.expect]_vars

\* C2: the selection set never holds the same identifier twice.
C2_NoDuplicateIds == NoDuplicates(selectedArtworkIds)

\* C3: handleSubmit with a valid N <= the number of displayed records leaves,
\* of the current page, exactly its first N identifiers selected in returned
\* order, keeps the identifiers selected on other pages, and sets the
\* pending count to 0.
C3_SubmitWithinPage ==
  [][(lastOp'.op = "handleSubmit" /\ lastOp'.arg <= Len(artworks))
       => /\ FilterIn(selectedArtworkIds', artworks) = Slice0(artworks, lastOp'.arg)
          /\ FilterNotIn(selectedArtworkIds', artworks)
               = FilterNotIn(selectedArtworkIds, artworks)
          /\ pendingSelection' = 0]_vars

\* C3 witness: a submit of 1 <= N <= displayed records has acted while an
\* identifier of another page was selected, and that identifier is kept.
C3_Witness ==
  /\ lastOp.op = "handleSubmit"
  /\ lastOp.arg >= 1 /\ lastOp.arg <= Len(artworks)
  /\ pendingSelection = 0
  /\ FilterIn(selectedArtworkIds, artworks) = Slice0(artworks, lastOp.arg)
  /\ FilterNotIn(selectedArtworkIds, artworks) # <<>>

\* C4: right after handleSubmit with a valid N > the number of displayed
\* records, every displayed identifier is selected and the pending count is
\* N minus the number of displayed records.
C4_SubmitBeyondPage ==
  [][(lastOp'.op = "handleSubmit" /\ lastOp'.arg > Len(artworks))
       => /\ \A i \in 1..Len(artworks) : Includes(selectedArtworkIds', artworks[i])
          /\ pendingSelection' = lastOp'.arg - Len(artworks)]_vars

\* C4 witness: a submit of N > displayed records has acted on a loaded page.
C4_Witness ==
  /\ lastOp.op = "handleSubmit"
  /\ artworks # <<>>
  /\ lastOp.arg > Len(artworks)
  /\ pendingSelection = lastOp.arg - Len(artworks)
  /\ PageChecked(artworks, selectedArtworkIds)

\* C5: the pending count is never negative.
C5_PendingNonNegative == pendingSelection >= 0

\* C6: with no next-page fetch in flight and no effect left to run, the
\* pending count is 0.
C6_PendingZeroWhenIdle ==
  (Settled /\ nextFetches = EmptyBag) => pendingSelection = 0

\* C7: once the pending count is > 0, a state with pending count 0 and no
\* next-page fetch in flight is eventually reached, given that every fetch
\* gets its response.
C7_WalkTerminates ==
  (pendingSelection > 0) ~> (pendingSelection = 0 /\ nextFetches = EmptyBag)

\* C8: whenever all effects have run, the array stored in local storage is
\* the in-memory selection.
C8_StorageMirrorsMemory ==
  Settled => /\ localStorage.present
             /\ JSONparse(localStorage.text) = selectedArtworkIds

\* C8 witness: the effects have run after a walk appended identifiers of a
\* following page, and the stored array is the selection.
C8_Witness ==
  /\ Settled
  /\ lastOp.op = "effects"
  /\ walk.active
  /\ Len(selectedArtworkIds) > Rows
  /\ JSONparse(localStorage.text) = selectedArtworkIds

\* C9: when local storage holds a serialized selection S at mount, then once
\* the mount effects have run the selection is S and local storage holds S.
C9_ReloadRoundTrip ==
  (Settled /\ ops = 0 /\ StoredSelectionTruthy(mountItem))
    => /\ selectedArtworkIds = JSONparse(mountItem.text)
       /\ localStorage = mountItem

\* C9 witness: the mount effects have run over a stored non-empty selection.
C9_Witness ==
  /\ Settled /\ ops = 0
  /\ StoredSelectionTruthy(mountItem)
  /\ JSONparse(mountItem.text) # <<>>
  /\ selectedArtworkIds = JSONparse(mountItem.text)
  /\ localStorage = mountItem

\* C10: the effect pass a page or sort change triggers (onPage, onSort, or
\* the walk's own page advance) leaves the selection unchanged.
C10_PageChangeKeepsSelection ==
  [][(EffLazyParams \in effects /\ lastOp.op # "mount")
       => selectedArtworkIds' = selectedArtworkIds]_vars

\* Texts of the count input that parse to NaN or to a negative number.
InvalidTexts == {<<>>, <<"-", "1">>}

\* C11: handleSubmit on an input that parses to NaN or to a negative number
\* changes none of the selection, the pending count, the selectAll flag, the
\* displayed page, the page parameters and local storage, and schedules no
\* effect.
C11_InvalidCountRejected ==
  [][(lastOp'.op \in {"handleSubmit", "handleSubmitInvalid"} /\ rowSelection \in InvalidTexts)
       => UNCHANGED <<selectedArtworkIds, pendingSelection, selectAll, artworks, lazyParams,
                      localStorage, effects>>]_vars

\* C11 witness: a negative count was submitted over a non-empty selection on
\* a loaded page, and nothing moved.
C11_Witness ==
  /\ lastOp.op = "handleSubmitInvalid"
  /\ rowSelection = <<"-", "1">>
  /\ artworks # <<>>
  /\ selectedArtworkIds # <<>>
  /\ effects = {}

\* C12: a failed next-page fetch sets the pending count to 0 and leaves the
\* selection as it was; no step issues a next-page fetch unless the pending
\* count is > 0, and only a new handleSubmit raises the pending count above
\* 0 again, so the walk issues no further fetch.
C12_NextPageFailureEndsWalk ==
  [][/\ lastOp'.op = "fetchNextPageFail"
          => /\ pendingSelection' = 0
             /\ selectedArtworkIds' = selectedArtworkIds
             /\ BagCardinality(nextFetches') < BagCardinality(nextFetches)
     /\ BagCardinality(nextFetches') > BagCardinality(nextFetches)
          => pendingSelection > 0
     /\ (pendingSelection' > 0 /\ pendingSelection' > pendingSelection)
          => lastOp'.op = "handleSubmit"]_vars

\* C12 witness: the fetch of a walk that had already advanced a page failed,
\* the pending count is 0 and the selection made so far is still there.
C12_Witness ==
  /\ lastOp.op = "fetchNextPageFail"
  /\ lazyParams.page > 1
  /\ pendingSelection = 0
  /\ selectedArtworkIds # <<>>

\* C13: a failed page-load fetch leaves the displayed records and the total
\* record count as they were, clears the loading flag, and issues no request
\* and schedules no effect.
C13_PageLoadFailure ==
  [][lastOp'.op = "fetchArtworksFail"
       => /\ artworks' = artworks
          /\ totalRecords' = totalRecords
          /\ loading' = FALSE
          /\ BagCardinality(pageFetches') = BagCardinality(pageFetches) - 1
          /\ effects' = {}]_vars

\* C13 witness: the load of another page failed while a page was displayed.
C13_Witness ==
  /\ lastOp.op = "fetchArtworksFail"
  /\ artworks # <<>>
  /\ totalRecords = Total
  /\ artworks # ServerPage(lazyParams.page, lazyParams.sortField, lazyParams.sortOrder)
  /\ ~loading

\* The selection the behaviour of SelectSpec started from.
SelectionAtStart == JSONparse(mountItem.text)

\* C14: from a selection S, checking the page-level checkbox on a page P and
\* then unchecking a record x of P gives the selection (S union P) minus
\* {x}, each identifier once; from an empty S on a full page its size is
\* the page size minus 1.
C14_SelectAllThenDeselectOne ==
  (ops = 2 /\ lastOp.op = "uncheck")
    => /\ Range(selectedArtworkIds)
            = (Range(SelectionAtStart) \cup Range(artworks)) \ {lastOp.arg}
       /\ NoDuplicates(selectedArtworkIds)
       /\ (SelectionAtStart = <<>> /\ Len(artworks) = Rows)
            => Len(selectedArtworkIds) = Rows - 1

\* C14 witness: the page was checked and one of its records unchecked, from
\* a selection holding a record of the page and a record of another page.
C14_Witness ==
  /\ ops = 2 /\ lastOp.op = "uncheck"
  /\ Range(SelectionAtStart) \cap Range(artworks) # {}
  /\ Range(SelectionAtStart) \ Range(artworks) # {}
  /\ Len(artworks) = Rows
  /\ Len(selectedArtworkIds) = Cardinality(Range(SelectionAtStart) \cup Range(artworks)) - 1

\* C14 witness from the empty selection on a full page.
C14_WitnessFromEmpty ==
  /\ ops = 2 /\ lastOp.op = "uncheck"
  /\ SelectionAtStart = <<>>
  /\ Len(artworks) = Rows
  /\ Len(selectedArtworkIds) = Rows - 1

\* C15: at most one next-page fetch is in flight in every reachable state.
C15_OneNextFetchInFlight == BagCardinality(nextFetches) <= 1

\* C16: a change of the page parameters cancels no page-load fetch (only a
\* response takes a request out of flight), and a successful response
\* always replaces the displayed records and the total by its own, whatever
\* the parameters are by then: the last response to arrive is displayed.
C16_LastResponseWins ==
  [][/\ lastOp'.op \notin {"fetchArtworksOk", "fetchArtworksFail"}
          => \A req \in BagToSet(pageFetches) :
               CopiesIn(req, pageFetches') >= CopiesIn(req, pageFetches)
     /\ lastOp'.op = "fetchArtworksOk"
          => /\ artworks' = ServerPage(lastOp'.arg.page, lastOp'.arg.sortField,
                                      lastOp'.arg.sortOrder)
             /\ totalRecords' = Total
             /\ CopiesIn(lastOp'.arg, pageFetches') = CopiesIn(lastOp'.arg, pageFetches) - 1]_vars

\* C16 witness: the parameters changed while a load was in flight, both
\* responses arrived, the older request's last, and its page is displayed.
C16_Witness ==
  /\ lastOp.op = "fetchArtworksOk"
  /\ pageFetches = EmptyBag
  /\ lastOp.arg # PageRequest(lazyParams)
  /\ artworks = ServerPage(lastOp.arg.page, lastOp.arg.sortField, lastOp.arg.sortOrder)
  /\ artworks # ServerPage(lazyParams.page, lazyParams.sortField, lazyParams.sortOrder)

\* C17: checking the page-level checkbox adds exactly the visible
\* identifiers not yet selected, unchecking it removes exactly the visible
\* ones; either way the selected identifiers of other pages stay and the
\* pending count is unchanged, and checking again changes nothing.
C17_PageCheckboxTouchesVisibleOnly ==
  [][/\ lastOp'.op = "checkPage"
          => /\ Range(selectedArtworkIds') = Range(selectedArtworkIds) \cup Range(artworks)
             /\ FilterNotIn(selectedArtworkIds', selectedArtworkIds)
                  = FilterNotIn(artworks, selectedArtworkIds)
             /\ SelectPage(selectedArtworkIds', artworks, TRUE) = selectedArtworkIds'
     /\ lastOp'.op = "uncheckPage"
          => Range(selectedArtworkIds') = Range(selectedArtworkIds) \ Range(artworks)
     /\ lastOp'.op \in {"checkPage", "uncheckPage"}
          => /\ Range(selectedArtworkIds') \ Range(artworks)
                  = Range(selectedArtworkIds) \ Range(artworks)
             /\ pendingSelection' = pendingSelection]_vars

\* C17 witness: during a walk (pending count > 0) the wholly selected page
\* was unchecked, one of its records checked, and the page checked again;
\* the page's records and a record of another page are selected, and the
\* pending count is still the walk's.
C17_Witness ==
  /\ lastOp.op = "checkPage"
  /\ ops = 3
  /\ artworks # <<>>
  /\ PageChecked(artworks, SelectionAtStart)
  /\ PageChecked(artworks, selectedArtworkIds)
  /\ Range(selectedArtworkIds) \ Range(artworks) # {}
  /\ Range(selectedArtworkIds) \ Range(artworks)
       = Range(SelectionAtStart) \ Range(artworks)
  /\ pendingSelection > 0

\* C17 witness of the unchecked branch: a wholly selected, non-empty page
\* was unchecked during a walk; none of its records is selected, a record
\* of another page still is.
C17_WitnessUnchecked ==
  /\ lastOp.op = "uncheckPage"
  /\ artworks # <<>>
  /\ Range(selectedArtworkIds) \cap Range(artworks) = {}
  /\ Range(selectedArtworkIds) = Range(SelectionAtStart) \ Range(artworks)
  /\ selectedArtworkIds # <<>>
  /\ pendingSelection > 0

\* C18 as claimed: from the first effect pass on, loading is true exactly
\* when a page-load fetch is in flight.
C18_LoadingIffFetchInFlight ==
  lastOp.op # "mount" => (loading <=> pageFetches # EmptyBag)

\* C18: from the first effect pass on, loading is false whenever no
\* page-load fetch is in flight.
C18_LoadingClearWhenIdle ==
  (lastOp.op # "mount" /\ pageFetches = EmptyBag) => ~loading

\* C18 witness: the last page-load fetch in flight failed and the flag is
\* cleared.
C18_Witness ==
  /\ lastOp.op = "fetchArtworksFail"
  /\ pageFetches = EmptyBag
  /\ ~loading

====
